---- MODULE Spec2Model ----
(***************************************************************************)
(* Model of fwsp-cacher (src/index.js): the Cacher wrapper around a Redis  *)
(* store.  Every data operation opens a connection of its own, selects the *)
(* database, sends its command(s) and settles a promise from the node      *)
(* callbacks.  The store handles the requests of different connections in  *)
(* any order; a connection carries one request at a time.                  *)
(***************************************************************************)
EXTENDS Naturals, Sequences, FiniteSets, TLC

(* ------------------------------ bounds --------------------------------- *)

\* number of operations the client program starts in one behaviour
MaxCalls == 2

\* largest cacheDurationInSeconds a caller passes
MaxTTL == 1

(* --------------------------- JavaScript values ------------------------- *)

JSNull == [type |-> "null", v |-> 0]

JSUndefined == [type |-> "undefined", v |-> 0]

JSNaN == [type |-> "nan", v |-> 0]

JSNumber(n) == [type |-> "number", v |-> n]

JSString(s) == [type |-> "string", v |-> s]

JSObject(k, m) == [type |-> "object", v |-> [k |-> k, m |-> m]]

JSError(e) == [type |-> "error", v |-> e]

\* the data the callers (and the fallbacks) of the model work with: {a: 12} is
\* the object of the tests; NaN is a value JSON cannot represent
DataValues == {JSNull, JSString(<<"a">>), JSObject(<<"a">>, JSNumber(12)), JSNaN}

JSONRepresentable(d) == d # JSNaN /\ d # JSUndefined

(* ------------------------------ JSON text ------------------------------ *)
\* A text is a sequence of one-character strings.

DigitChars == <<"0", "1", "2", "3", "4", "5", "6", "7", "8", "9">>

Quote == "\""

NullText == <<"n", "u", "l", "l">>

RECURSIVE NatToText(_)
NatToText(n) ==
    IF n < 10 THEN <<DigitChars[n + 1]>>
    ELSE NatToText(n \div 10) \o <<DigitChars[(n % 10) + 1]>>

\* JSON.stringify(data)
RECURSIVE JSONStringify(_)
JSONStringify(d) ==
    CASE d.type = "null" -> NullText
      [] d.type = "nan" -> NullText
      [] d.type = "number" -> NatToText(d.v)
      [] d.type = "string" -> <<Quote>> \o d.v \o <<Quote>>
      [] d.type = "object" ->
            <<"{", Quote>> \o d.v.k \o <<Quote, ":">> \o JSONStringify(d.v.m) \o <<"}">>

SyntaxError == JSError("SyntaxError")

IsDigit(ch) == \E i \in 1..10 : DigitChars[i] = ch

DigitOf(ch) == (CHOOSE i \in 1..10 : DigitChars[i] = ch) - 1

RECURSIVE TextToNat(_)
TextToNat(t) ==
    IF Len(t) = 1 THEN DigitOf(t[1])
    ELSE 10 * TextToNat(SubSeq(t, 1, Len(t) - 1)) + DigitOf(t[Len(t)])

IsNumberText(t) ==
    /\ Len(t) >= 1
    /\ \A i \in 1..Len(t) : IsDigit(t[i])
    /\ (Len(t) > 1 => t[1] # "0")

IsStringText(t) ==
    /\ Len(t) >= 2
    /\ t[1] = Quote
    /\ t[Len(t)] = Quote
    /\ \A i \in 2..(Len(t) - 1) : t[i] # Quote

ParseScalar(t) ==
    IF t = NullText THEN JSNull
    ELSE IF IsNumberText(t) THEN JSNumber(TextToNat(t))
    ELSE IF IsStringText(t) THEN JSString(SubSeq(t, 2, Len(t) - 1))
    ELSE SyntaxError

\* the position of the quote that closes the member name of an object text
KeyEnd(t) == CHOOSE j \in 3..Len(t) : t[j] = Quote /\ \A i \in 3..(j - 1) : t[i] # Quote

IsObjectText(t) ==
    /\ Len(t) >= 6
    /\ t[1] = "{"
    /\ t[2] = Quote
    /\ t[Len(t)] = "}"
    /\ \E j \in 3..Len(t) : t[j] = Quote
    /\ KeyEnd(t) + 1 < Len(t)
    /\ t[KeyEnd(t) + 1] = ":"
    /\ ParseScalar(SubSeq(t, KeyEnd(t) + 2, Len(t) - 1)) # SyntaxError

\* JSON.parse(text) of a text; a SyntaxError is returned as a value
JSONParseText(t) ==
    IF IsObjectText(t)
    THEN JSObject(SubSeq(t, 3, KeyEnd(t) - 1),
                  ParseScalar(SubSeq(t, KeyEnd(t) + 2, Len(t) - 1)))
    ELSE ParseScalar(t)

\* JSON.parse(arg): a null argument is converted to the string "null" first
JSONParse(arg) ==
    IF arg.type = "null" THEN JSONParseText(NullText) ELSE JSONParseText(arg.v)

\* utils.safeJSONParse(str) of @flywheelsports/jsutils: JSON.parse in a try
\* block, undefined when it throws
safeJSONParse(str) ==
    IF JSONParse(str) = SyntaxError THEN JSUndefined ELSE JSONParse(str)

\* JavaScript truthiness of a reply: null and the empty string are falsy
Truthy(r) == r.type # "null" /\ r.type # "undefined" /\ ~(r.type = "string" /\ r.v = <<>>)

(* ------------------------------- state --------------------------------- *)

Calls == 1..MaxCalls

Keys == {"test1"}

Prefixes == {"cacher", "myAppName"}

\* the label with the default prefix whatever this.cachePrefix is
HKeyLabelDefault(prefix, key) == "cacher" \o ":" \o key

\* the template literal `${this.cachePrefix}:${key}`
HKeyLabel(prefix, key) == prefix \o ":" \o key

\* the older Cacher: crypto.createHash('md5').update(key).digest('hex'), for
\* the keys of the model
hash(key) ==
    CASE key = "test1" -> "5a105e8b9d40e1329780d62ea2265d8a"
      [] OTHER -> "d41d8cd98f00b204e9800998ecf8427e"

\* the older Cacher: the template literal `appcache:${this.hash(key)}`
OldHKeyLabel(key) == "appcache:" \o hash(key)

StorageKeys ==
    {HKeyLabel(p, k) : p \in Prefixes \cup {"undefined"}, k \in Keys}
        \cup {OldHKeyLabel(k) : k \in Keys}

TTLs == 0..MaxTTL

\* the configuration objects callers pass to init
ConfigArgs == {[url |-> "127.0.0.1", port |-> 6379]}

\* the same, and one that names its database
ConfigArgsDb == ConfigArgs \cup {[url |-> "127.0.0.1", port |-> 6379, db |-> 2]}

VARIABLES
    config,       \* this.config: undefined until init
    cachePrefix,  \* this.cachePrefix as a template literal renders it
    calls,        \* the operations started by the client program, by number
    conns,        \* per call, the redis clients it created, in order
    store,        \* the entries of the selected database
    lastMod       \* history: per storage key, the call whose SETEX, EXPIRE or
                  \* DEL the store applied last (0: none)

vars == <<config, cachePrefix, calls, conns, store, lastMod>>

Pending == [state |-> "pending", value |-> JSUndefined]

\* seen: read (a GET was answered), hit and val (the entry), writer (the call
\* that wrote it), lastMod of the key and the age of that call's write
NoSeen == [read |-> FALSE, hit |-> FALSE, val |-> <<>>, writer |-> 0, lastMod |-> 0, age |-> 0]

\* One operation of the client program:
\*   op, key, data, ttl  the operation and its arguments (for
\*                       getDataWithFallback, data is the result of fallback
\*                       once it has resolved: the argument of its setData)
\*   inner               getData or setData while getDataWithFallback runs it
\*   hKey                hKeyLabel of the running getData, setData, ...
\*   pc                  idle, select (openDB pending), cmd (command pending),
\*                       expire (EXPIRE pending), fallback, done
\*   promise             the promise returned to the caller
\* and its history, which no operation reads:
\*   fbCount, fbState, fbResult   calls and outcome of fallback
\*   getResult           what the getData of getDataWithFallback resolved with
\*   openErr, cmdErr     the error of db.select, of the last command
\*   sent                the commands sent, in order
\*   after               the calls whose promise had resolved at the start
\*   seen                what the store held when it answered the GET
\*   applied, age        the store applied the SETEX, seconds ago (capped)
\*   existed             the DEL or EXPIRE found an entry
\*   afterRej            the calls whose promise had rejected at the start
\*   prefix              this.cachePrefix when hKey was computed
IdleCall ==
    [op |-> "none", key |-> "", data |-> JSUndefined, ttl |-> 0,
     pc |-> "idle", inner |-> "none", hKey |-> "", promise |-> Pending,
     fbCount |-> 0, fbState |-> "none", fbResult |-> JSUndefined, getResult |-> JSUndefined,
     openErr |-> JSNull, cmdErr |-> JSNull,
     sent |-> <<>>, after |-> {}, seen |-> NoSeen, applied |-> FALSE, age |-> 0,
     existed |-> FALSE, afterRej |-> {}, prefix |-> ""]

Absent == [present |-> FALSE, val |-> <<>>, ttl |-> 0, writer |-> 0]

ConnectionError == JSError("ConnectionError")

StoreErr == JSError("StoreError")

FallbackErr == JSError("FallbackError")

OK == JSString(<<"O", "K">>)

Command(cmd, key, num, val) == [cmd |-> cmd, key |-> key, num |-> num, val |-> val]

Reply(err, result) == [err |-> err, result |-> result]

\* a promise that the last call of resolve or reject settles
SettleLast(p, state, value) == [state |-> state, value |-> value]

\* a promise is settled once: later calls of resolve and reject change nothing
Settle(p, state, value) ==
    IF p.state = "pending" THEN [state |-> state, value |-> value] ELSE p

\* the redis client a call is using: the one it created last
Cur(c) == Len(conns[c])

HasReq(c, cmd) ==
    /\ Cur(c) >= 1
    /\ conns[c][Cur(c)].req # <<>>
    /\ conns[c][Cur(c)].req[1].cmd = cmd

HasRep(c) == Cur(c) >= 1 /\ conns[c][Cur(c)].rep # <<>>

Req(c) == conns[c][Cur(c)].req[1]

Rep(c) == conns[c][Cur(c)].rep[1]

\* Object.assign({db: 1}, config)
DefaultDb == 1

ObjectAssign(def, cfg) ==
    [f \in DOMAIN def \cup DOMAIN cfg |-> IF f \in DOMAIN cfg THEN cfg[f] ELSE def[f]]

\* openDB: createClient and db.select(this.config.db, callback)
openDB(cs) ==
    Append(cs, [state |-> "open",
                req |-> <<Command("SELECT", "", config.v.db, <<>>)>>,
                rep |-> <<>>])

\* closeDB(db): db.end(0) on the client the call holds
closeDB(cs) == [cs EXCEPT ![Len(cs)].state = "closed"]

\* the node callback consumes the reply
TakeRep(cs) == [cs EXCEPT ![Len(cs)].rep = <<>>]

Send(cs, command) == [cs EXCEPT ![Len(cs)].req = <<command>>, ![Len(cs)].rep = <<>>]

Answer(cs, reply) == [cs EXCEPT ![Len(cs)].req = <<>>, ![Len(cs)].rep = <<reply>>]

\* a stored string that is not JSON (another client of the store wrote it)
MalformedText == <<"{", "a">>

\* the store outlives the program: an entry of an earlier run may be there
\* when the program starts (writer 0: none of the calls of this run)
InitialEntries ==
    {Absent} \cup
    {[present |-> TRUE, val |-> text, ttl |-> t, writer |-> 0] :
        text \in {JSONStringify(JSObject(<<"a">>, JSNumber(12))), MalformedText},
        t \in 1..MaxTTL}

Init ==
    /\ config = JSUndefined
    /\ cachePrefix = "undefined"
    /\ calls = [c \in Calls |-> IdleCall]
    /\ conns = [c \in Calls |-> <<>>]
    /\ store \in [StorageKeys -> InitialEntries]
    /\ \A k \in StorageKeys : store[k].present => k \in {HKeyLabel("cacher", key) : key \in Keys}
    /\ lastMod = [k \in StorageKeys |-> 0]

(* --------------------------- configuration ------------------------------ *)

\* init without the assignment of the prefix: super.init(config) only
CacherInitKeepPrefix(cfg) ==
    /\ config' = [type |-> "config", v |-> ObjectAssign([db |-> DefaultDb], cfg)]
    /\ UNCHANGED <<cachePrefix, calls, conns, store, lastMod>>

\* Cacher.init(config)
CacherInit(cfg) ==
    /\ config' = [type |-> "config", v |-> ObjectAssign([db |-> DefaultDb], cfg)]
    /\ cachePrefix' = "cacher"
    /\ UNCHANGED <<calls, conns, store, lastMod>>

\* Cacher.setCachePrefix(name)
setCachePrefix(name) ==
    /\ cachePrefix' = name
    /\ UNCHANGED <<config, calls, conns, store, lastMod>>

(* ------------------------------ the store ------------------------------ *)
\* Redis, as the commands of the wrapper see it.  Requests of different
\* connections are handled in any order.

InvalidExpire == JSError("ERR invalid expire time in setex")

\* SELECT answered OK
StoreSelect(c) ==
    /\ HasReq(c, "SELECT")
    /\ conns' = [conns EXCEPT ![c] = Answer(@, Reply(JSNull, OK))]
    /\ UNCHANGED <<config, cachePrefix, calls, store, lastMod>>

\* the store is unreachable, or answers the command with an error: the
\* command is not applied
StoreFail(c) ==
    /\ Cur(c) >= 1
    /\ conns[c][Cur(c)].req # <<>>
    /\ conns' = [conns EXCEPT ![c] =
          Answer(@, Reply(IF Req(c).cmd = "SELECT" THEN ConnectionError ELSE StoreErr,
                          JSNull))]
    /\ UNCHANGED <<config, cachePrefix, calls, store, lastMod>>

\* GET key
StoreGet(c) ==
    /\ HasReq(c, "GET")
    /\ LET k == Req(c).key
           e == store[k]
       IN /\ conns' = [conns EXCEPT ![c] =
                Answer(@, Reply(JSNull, IF e.present THEN JSString(e.val) ELSE JSNull))]
          /\ calls' = [calls EXCEPT ![c].seen =
                [read |-> TRUE, hit |-> e.present, val |-> e.val, writer |-> e.writer,
                 lastMod |-> lastMod[k],
                 age |-> IF lastMod[k] = 0 THEN 0 ELSE calls[lastMod[k]].age]]
    /\ UNCHANGED <<config, cachePrefix, store, lastMod>>

\* SETEX key seconds value
StoreSetex(c) ==
    /\ HasReq(c, "SETEX")
    /\ LET r == Req(c)
       IN IF r.num >= 1
          THEN /\ store' = [store EXCEPT ![r.key] =
                     [present |-> TRUE, val |-> r.val, ttl |-> r.num, writer |-> c]]
               /\ lastMod' = [lastMod EXCEPT ![r.key] = c]
               /\ calls' = [calls EXCEPT ![c].applied = TRUE, ![c].age = 0]
               /\ conns' = [conns EXCEPT ![c] = Answer(@, Reply(JSNull, OK))]
          ELSE /\ conns' = [conns EXCEPT ![c] = Answer(@, Reply(InvalidExpire, JSNull))]
               /\ UNCHANGED <<store, lastMod, calls>>
    /\ UNCHANGED <<config, cachePrefix>>

\* EXPIRE key seconds: a timeout of 0 deletes the key
StoreExpire(c) ==
    /\ HasReq(c, "EXPIRE")
    /\ LET r == Req(c)
       IN IF store[r.key].present
          THEN /\ store' = [store EXCEPT ![r.key] =
                     IF r.num = 0 THEN Absent ELSE [@ EXCEPT !.ttl = r.num]]
               /\ lastMod' = [lastMod EXCEPT ![r.key] = c]
               /\ calls' = [calls EXCEPT ![c].existed = TRUE]
               /\ conns' = [conns EXCEPT ![c] = Answer(@, Reply(JSNull, JSNumber(1)))]
          ELSE /\ conns' = [conns EXCEPT ![c] = Answer(@, Reply(JSNull, JSNumber(0)))]
               /\ UNCHANGED <<store, lastMod, calls>>
    /\ UNCHANGED <<config, cachePrefix>>

\* DEL key
StoreDel(c) ==
    /\ HasReq(c, "DEL")
    /\ LET r == Req(c)
       IN /\ store' = [store EXCEPT ![r.key] = Absent]
          /\ lastMod' = [lastMod EXCEPT ![r.key] = c]
          /\ conns' = [conns EXCEPT ![c] =
                Answer(@, Reply(JSNull, JSNumber(IF store[r.key].present THEN 1 ELSE 0)))]
          /\ calls' = [calls EXCEPT ![c].existed = store[r.key].present]
    /\ UNCHANGED <<config, cachePrefix>>

\* one second of store time passes: entries whose time is up are removed
Tick ==
    /\ \/ \E k \in StorageKeys : store[k].present
       \/ \E c \in Calls : calls[c].applied /\ calls[c].age <= MaxTTL
    /\ store' = [k \in StorageKeys |->
          IF store[k].present /\ store[k].ttl > 1
          THEN [store[k] EXCEPT !.ttl = @ - 1]
          ELSE Absent]
    /\ calls' = [c \in Calls |->
          IF calls[c].applied /\ calls[c].age <= MaxTTL
          THEN [calls[c] EXCEPT !.age = @ + 1]
          ELSE calls[c]]
    /\ UNCHANGED <<config, cachePrefix, conns, lastMod>>

(* ----------------------------- the wrapper ------------------------------ *)

\* res != null: null and undefined are loosely equal
LooseNull(d) == d.type = "null" \/ d.type = "undefined"

\* getDataWithFallback without the test of res: fallback() on a hit too
gdwfAfterGetNoTest(call, state, value) ==
    IF state = "rejected"
    THEN [call EXCEPT !.promise = Settle(@, "rejected", value), !.pc = "done"]
    ELSE [call EXCEPT !.getResult = value, !.fbCount = @ + 1, !.pc = "fallback"]

\* getDataWithFallback with the fallback as the handler of a rejected
\* getData too: getData(key).catch(() => null).then(...)
gdwfAfterGetCatchAll(call, state, value) ==
    IF state = "resolved" /\ ~LooseNull(value)
    THEN [call EXCEPT !.getResult = value,
                      !.promise = Settle(@, "resolved", value), !.pc = "done"]
    ELSE [call EXCEPT !.getResult = value, !.fbCount = @ + 1, !.pc = "fallback"]

\* getDataWithFallback, the handlers chained on this.getData(key): a present
\* value is passed on to resolve; on a miss fallback() is called; a rejection
\* reaches .catch(reject)
gdwfAfterGet(call, state, value) ==
    IF state = "rejected"
    THEN [call EXCEPT !.promise = Settle(@, "rejected", value), !.pc = "done"]
    ELSE IF ~LooseNull(value)
    THEN [call EXCEPT !.getResult = value,
                      !.promise = Settle(@, "resolved", value), !.pc = "done"]
    ELSE [call EXCEPT !.getResult = value, !.fbCount = @ + 1, !.pc = "fallback"]

\* getDataWithFallback with then(() => {}): the result is not returned
gdwfAfterSetNoReturn(call, state, value) ==
    IF state = "resolved"
    THEN [call EXCEPT !.promise = Settle(@, "resolved", JSUndefined), !.pc = "done"]
    ELSE [call EXCEPT !.promise = Settle(@, "rejected", value), !.pc = "done"]

\* getDataWithFallback resolving with res whether the write succeeds or not
gdwfAfterSetMasked(call, state, value) ==
    [call EXCEPT !.promise = Settle(@, "resolved", call.data), !.pc = "done"]

\* getDataWithFallback, the handlers chained on this.setData(key, res, ttl):
\* then(() => res) on success, .catch(reject) otherwise
gdwfAfterSet(call, state, value) ==
    IF state = "resolved"
    THEN [call EXCEPT !.promise = Settle(@, "resolved", call.data), !.pc = "done"]
    ELSE [call EXCEPT !.promise = Settle(@, "rejected", value), !.pc = "done"]

\* resolve(value) or reject(value) of the promise of getData or setData: the
\* promise of a direct call, or the one getDataWithFallback chained on
Finish(call, state, value) ==
    IF call.op = "getDataWithFallback"
    THEN IF call.inner = "getData"
         THEN gdwfAfterGet(call, state, value)
         ELSE gdwfAfterSet(call, state, value)
    ELSE [call EXCEPT !.promise = Settle(@, state, value), !.pc = "done"]

\* the start of an operation: the label of the key, and openDB()
Start(c, op, key, data, ttl) ==
    /\ config # JSUndefined
    /\ calls[c].pc = "idle"
    /\ \A d \in 1..(c - 1) : calls[d].pc # "idle"
    /\ calls' = [calls EXCEPT ![c] =
          [@ EXCEPT !.op = op, !.key = key, !.data = data, !.ttl = ttl,
                    !.inner = IF op = "getDataWithFallback" THEN "getData" ELSE op,
                    !.hKey = HKeyLabel(cachePrefix, key),
                    !.pc = "select", !.sent = <<"SELECT">>,
                    !.after = {d \in Calls : calls[d].promise.state = "resolved"},
                    !.afterRej = {d \in Calls : calls[d].promise.state = "rejected"},
                    !.prefix = cachePrefix]]
    /\ conns' = [conns EXCEPT ![c] = openDB(@)]
    /\ UNCHANGED <<config, cachePrefix, store, lastMod>>

getData(c, key) == Start(c, "getData", key, JSUndefined, 0)

setData(c, key, data, cacheDurationInSeconds) ==
    Start(c, "setData", key, data, cacheDurationInSeconds)

setTTL(c, key, cacheDurationInSeconds) ==
    Start(c, "setTTL", key, JSUndefined, cacheDurationInSeconds)

deleteData(c, key) == Start(c, "deleteData", key, JSUndefined, 0)

getDataWithFallback(c, key, cacheDurationInSeconds) ==
    Start(c, "getDataWithFallback", key, JSUndefined, cacheDurationInSeconds)

Opened(c, inner) ==
    /\ calls[c].pc = "select"
    /\ calls[c].inner = inner
    /\ HasRep(c)
    /\ Rep(c).err = JSNull

OpenFailed(c, inner) ==
    /\ calls[c].pc = "select"
    /\ calls[c].inner = inner
    /\ HasRep(c)
    /\ Rep(c).err # JSNull

Replied(c, inner, pc) ==
    /\ calls[c].pc = pc
    /\ calls[c].inner = inner
    /\ HasRep(c)

\* the command a handler sends on the client it was given
SendCommand(c, command, pc) ==
    /\ conns' = [conns EXCEPT ![c] = Send(@, command)]
    /\ calls' = [calls EXCEPT ![c].pc = pc, ![c].sent = Append(@, command.cmd)]

GetCommand(hKeyLabel) == Command("GET", hKeyLabel, 0, <<>>)

\* db.setex with the duration taken for minutes
SetexCommandMinutes(hKeyLabel, cacheDurationInSeconds, data) ==
    Command("SETEX", hKeyLabel, cacheDurationInSeconds * 60, JSONStringify(data))

\* String(data): no quotes around a string, "[object Object]" for an object
ToStringText(d) ==
    CASE d.type = "null" -> NullText
      [] d.type = "nan" -> <<"N", "a", "N">>
      [] d.type = "number" -> NatToText(d.v)
      [] d.type = "string" -> d.v
      [] OTHER -> <<"[", "o", "b", "j", "e", "c", "t", " ", "O", "b", "j", "e", "c", "t", "]">>

\* db.setex with String(data) in place of JSON.stringify(data)
SetexCommandToString(hKeyLabel, cacheDurationInSeconds, data) ==
    Command("SETEX", hKeyLabel, cacheDurationInSeconds, ToStringText(data))

SetexCommand(hKeyLabel, cacheDurationInSeconds, data) ==
    Command("SETEX", hKeyLabel, cacheDurationInSeconds, JSONStringify(data))

\* db.expire without the duration: the key is given no time to live
ExpireCommandNow(hKeyLabel, cacheDurationInSeconds) ==
    Command("EXPIRE", hKeyLabel, 0, <<>>)

ExpireCommand(hKeyLabel, cacheDurationInSeconds) ==
    Command("EXPIRE", hKeyLabel, cacheDurationInSeconds, <<>>)

DelCommand(hKeyLabel) == Command("DEL", hKeyLabel, 0, <<>>)

\* getData, openDB().then: db.get(hKeyLabel, callback)
getDataThen(c) ==
    /\ Opened(c, "getData")
    /\ SendCommand(c, GetCommand(calls[c].hKey), "cmd")
    /\ UNCHANGED <<config, cachePrefix, store, lastMod>>

\* getData, openDB().catch: reject(reason), then closeDB(db) with db still
\* null, which throws: the client openDB created stays open
getDataCatch(c) ==
    /\ OpenFailed(c, "getData")
    /\ calls' = [calls EXCEPT ![c] =
          Finish([@ EXCEPT !.openErr = Rep(c).err], "rejected", Rep(c).err)]
    /\ conns' = [conns EXCEPT ![c] = TakeRep(@)]
    /\ UNCHANGED <<config, cachePrefix, store, lastMod>>

\* getData without the parse: resolve(result)
GetDataValueRaw(result) == result

\* getData with JSON.parse in place of utils.safeJSONParse: the SyntaxError
\* becomes the outcome
GetDataValueUnsafe(result) == JSONParse(result)

\* the value getData resolves with
GetDataValue(result) == safeJSONParse(result)

\* getData treating a miss as a failure: if (error || !result) reject(error)
getDataCallbackRejectMiss(c) ==
    /\ Replied(c, "getData", "cmd")
    /\ calls' = [calls EXCEPT ![c] =
          IF Rep(c).err # JSNull
          THEN Finish([@ EXCEPT !.cmdErr = Rep(c).err], "rejected", Rep(c).err)
          ELSE IF ~Truthy(Rep(c).result)
          THEN Finish(@, "rejected", Rep(c).err)
          ELSE Finish(@, "resolved", GetDataValue(Rep(c).result))]
    /\ conns' = [conns EXCEPT ![c] = closeDB(TakeRep(@))]
    /\ UNCHANGED <<config, cachePrefix, store, lastMod>>

\* getData, the callback of db.get: reject(error) or
\* resolve(utils.safeJSONParse(result)), then closeDB(db)
getDataCallback(c) ==
    /\ Replied(c, "getData", "cmd")
    /\ calls' = [calls EXCEPT ![c] =
          IF Rep(c).err # JSNull
          THEN Finish([@ EXCEPT !.cmdErr = Rep(c).err], "rejected", Rep(c).err)
          ELSE Finish(@, "resolved", GetDataValue(Rep(c).result))]
    /\ conns' = [conns EXCEPT ![c] = closeDB(TakeRep(@))]
    /\ UNCHANGED <<config, cachePrefix, store, lastMod>>

\* setData, openDB().then: db.setex(hKeyLabel, seconds, JSON.stringify(data), callback)
setDataThen(c) ==
    /\ Opened(c, "setData")
    /\ SendCommand(c, SetexCommand(calls[c].hKey, calls[c].ttl, calls[c].data), "cmd")
    /\ UNCHANGED <<config, cachePrefix, store, lastMod>>

\* setData, the callback of db.setex: reject(error) or resolve(), then closeDB(db)
setDataCallback(c) ==
    /\ Replied(c, "setData", "cmd")
    /\ calls' = [calls EXCEPT ![c] =
          IF Rep(c).err # JSNull
          THEN Finish([@ EXCEPT !.cmdErr = Rep(c).err], "rejected", Rep(c).err)
          ELSE Finish(@, "resolved", JSUndefined)]
    /\ conns' = [conns EXCEPT ![c] = closeDB(TakeRep(@))]
    /\ UNCHANGED <<config, cachePrefix, store, lastMod>>

\* setData, openDB().catch: reject(reason), then closeDB(db) with db still
\* null, which throws: the client openDB created stays open
setDataCatch(c) ==
    /\ OpenFailed(c, "setData")
    /\ calls' = [calls EXCEPT ![c] =
          Finish([@ EXCEPT !.openErr = Rep(c).err], "rejected", Rep(c).err)]
    /\ conns' = [conns EXCEPT ![c] = TakeRep(@)]
    /\ UNCHANGED <<config, cachePrefix, store, lastMod>>

\* setTTL, openDB().then: db.get(hKeyLabel, callback)
setTTLThen(c) ==
    /\ Opened(c, "setTTL")
    /\ SendCommand(c, GetCommand(calls[c].hKey), "cmd")
    /\ UNCHANGED <<config, cachePrefix, store, lastMod>>

\* setTTL has no handler for a rejected openDB(): nothing settles the promise
\* and nothing closes the client
setTTLOpenRejected(c) ==
    /\ OpenFailed(c, "setTTL")
    /\ calls' = [calls EXCEPT ![c].openErr = Rep(c).err, ![c].pc = "done"]
    /\ conns' = [conns EXCEPT ![c] = TakeRep(@)]
    /\ UNCHANGED <<config, cachePrefix, store, lastMod>>

\* setExpire(db, hKeyLabel, seconds, resolve, reject): db.expire(...)
setExpire(c, hKeyLabel, cacheDurationInSeconds) ==
    /\ conns' = [conns EXCEPT ![c] =
          Send(@, ExpireCommand(hKeyLabel, cacheDurationInSeconds))]

\* setTTL without the test of result: setExpire on a miss too
setTTLCallbackNoTest(c) ==
    /\ Replied(c, "setTTL", "cmd")
    /\ IF Rep(c).err # JSNull
       THEN /\ calls' = [calls EXCEPT ![c].cmdErr = Rep(c).err,
                                      ![c].promise = Settle(@, "rejected", Rep(c).err),
                                      ![c].pc = "done"]
            /\ conns' = [conns EXCEPT ![c] = TakeRep(@)]
       ELSE /\ calls' = [calls EXCEPT
                  ![c].promise = Settle(@, "resolved", safeJSONParse(Rep(c).result)),
                  ![c].pc = "expire",
                  ![c].sent = Append(@, "EXPIRE")]
            /\ setExpire(c, calls[c].hKey, calls[c].ttl)
    /\ UNCHANGED <<config, cachePrefix, store, lastMod>>

\* setTTL, the callback of db.get: reject(error); or resolve(the parsed value)
\* and setExpire(...) on the same client; or reject() and closeDB(db)
setTTLCallback(c) ==
    /\ Replied(c, "setTTL", "cmd")
    /\ IF Rep(c).err # JSNull
       THEN /\ calls' = [calls EXCEPT ![c].cmdErr = Rep(c).err,
                                      ![c].promise = Settle(@, "rejected", Rep(c).err),
                                      ![c].pc = "done"]
            /\ conns' = [conns EXCEPT ![c] = TakeRep(@)]
       ELSE IF Truthy(Rep(c).result)
       THEN /\ calls' = [calls EXCEPT
                  ![c].promise = Settle(@, "resolved", safeJSONParse(Rep(c).result)),
                  ![c].pc = "expire",
                  ![c].sent = Append(@, "EXPIRE")]
            /\ setExpire(c, calls[c].hKey, calls[c].ttl)
       ELSE /\ calls' = [calls EXCEPT ![c].promise = Settle(@, "rejected", JSUndefined),
                                      ![c].pc = "done"]
            /\ conns' = [conns EXCEPT ![c] = closeDB(TakeRep(@))]
    /\ UNCHANGED <<config, cachePrefix, store, lastMod>>

\* setExpire, the callback of db.expire: resolve(result) or reject(error) of a
\* promise that is settled already, then closeDB(db)
setExpireCallback(c) ==
    /\ Replied(c, "setTTL", "expire")
    /\ calls' = [calls EXCEPT
          ![c].cmdErr = Rep(c).err,
          ![c].promise = IF Rep(c).err = JSNull
                         THEN Settle(@, "resolved", Rep(c).result)
                         ELSE Settle(@, "rejected", Rep(c).err),
          ![c].pc = "done"]
    /\ conns' = [conns EXCEPT ![c] = closeDB(TakeRep(@))]
    /\ UNCHANGED <<config, cachePrefix, store, lastMod>>

\* deleteData, openDB().then: db.del(hKeyLabel, callback)
deleteDataThen(c) ==
    /\ Opened(c, "deleteData")
    /\ SendCommand(c, DelCommand(calls[c].hKey), "cmd")
    /\ UNCHANGED <<config, cachePrefix, store, lastMod>>

\* deleteData has no handler for a rejected openDB() either
deleteDataOpenRejected(c) ==
    /\ OpenFailed(c, "deleteData")
    /\ calls' = [calls EXCEPT ![c].openErr = Rep(c).err, ![c].pc = "done"]
    /\ conns' = [conns EXCEPT ![c] = TakeRep(@)]
    /\ UNCHANGED <<config, cachePrefix, store, lastMod>>

\* deleteData resolving with the reply of DEL: resolve(result)
deleteDataCallbackResult(c) ==
    /\ Replied(c, "deleteData", "cmd")
    /\ calls' = [calls EXCEPT
          ![c].cmdErr = Rep(c).err,
          ![c].promise = IF Rep(c).err # JSNull
                         THEN Settle(@, "rejected", Rep(c).err)
                         ELSE Settle(@, "resolved", Rep(c).result),
          ![c].pc = "done"]
    /\ conns' = [conns EXCEPT ![c] = TakeRep(@)]
    /\ UNCHANGED <<config, cachePrefix, store, lastMod>>

\* deleteData, the callback of db.del: reject(error) or resolve(); the client
\* is not closed
deleteDataCallback(c) ==
    /\ Replied(c, "deleteData", "cmd")
    /\ calls' = [calls EXCEPT
          ![c].cmdErr = Rep(c).err,
          ![c].promise = IF Rep(c).err # JSNull
                         THEN Settle(@, "rejected", Rep(c).err)
                         ELSE Settle(@, "resolved", JSUndefined),
          ![c].pc = "done"]
    /\ conns' = [conns EXCEPT ![c] = TakeRep(@)]
    /\ UNCHANGED <<config, cachePrefix, store, lastMod>>

\* getDataWithFallback with single-flight: a call whose fallback resolves
\* while another call is writing the key resolves with res and sends no write
fallbackResolvesSingleFlight(c, res) ==
    /\ calls[c].pc = "fallback"
    /\ IF \E d \in Calls \ {c} :
             /\ calls[d].op = "getDataWithFallback"
             /\ calls[d].key = calls[c].key
             /\ calls[d].inner = "setData"
       THEN /\ calls' = [calls EXCEPT ![c] =
                  [@ EXCEPT !.fbState = "resolved", !.fbResult = res, !.data = res,
                            !.promise = Settle(@, "resolved", res), !.pc = "done"]]
            /\ UNCHANGED conns
       ELSE /\ calls' = [calls EXCEPT ![c] =
                  [@ EXCEPT !.fbState = "resolved", !.fbResult = res, !.data = res,
                            !.inner = "setData",
                            !.hKey = HKeyLabel(cachePrefix, calls[c].key),
                            !.prefix = cachePrefix,
                            !.pc = "select", !.sent = Append(@, "SELECT")]]
            /\ conns' = [conns EXCEPT ![c] = openDB(@)]
    /\ UNCHANGED <<config, cachePrefix, store, lastMod>>

\* getDataWithFallback: the promise of fallback() resolves with res, and
\* this.setData(key, res, cacheDurationInSeconds) starts
fallbackResolves(c, res) ==
    /\ calls[c].pc = "fallback"
    /\ calls' = [calls EXCEPT ![c] =
          [@ EXCEPT !.fbState = "resolved", !.fbResult = res, !.data = res,
                    !.inner = "setData",
                    !.hKey = HKeyLabel(cachePrefix, calls[c].key),
                    !.prefix = cachePrefix,
                    !.pc = "select", !.sent = Append(@, "SELECT")]]
    /\ conns' = [conns EXCEPT ![c] = openDB(@)]
    /\ UNCHANGED <<config, cachePrefix, store, lastMod>>

\* getDataWithFallback with a fallback whose rejection is swallowed,
\* fallback().catch(() => null): the setData of null starts
fallbackRejectsSwallowed(c, err) ==
    /\ calls[c].pc = "fallback"
    /\ calls' = [calls EXCEPT ![c] =
          [@ EXCEPT !.fbState = "rejected", !.fbResult = err, !.data = JSNull,
                    !.inner = "setData",
                    !.hKey = HKeyLabel(cachePrefix, calls[c].key),
                    !.prefix = cachePrefix,
                    !.pc = "select", !.sent = Append(@, "SELECT")]]
    /\ conns' = [conns EXCEPT ![c] = openDB(@)]
    /\ UNCHANGED <<config, cachePrefix, store, lastMod>>

\* getDataWithFallback: the promise of fallback() rejects: .catch(reject)
fallbackRejects(c, err) ==
    /\ calls[c].pc = "fallback"
    /\ calls' = [calls EXCEPT ![c] =
          [@ EXCEPT !.fbState = "rejected", !.fbResult = err,
                    !.promise = Settle(@, "rejected", err), !.pc = "done"]]
    /\ UNCHANGED <<config, cachePrefix, conns, store, lastMod>>

(* --------------------------- the specification -------------------------- *)

Next ==
    \/ \E cfg \in ConfigArgs : CacherInit(cfg)
    \/ \E c \in Calls, k \in Keys : getData(c, k)
    \/ \E c \in Calls, k \in Keys, d \in DataValues, t \in TTLs : setData(c, k, d, t)
    \/ \E c \in Calls, k \in Keys, t \in TTLs : setTTL(c, k, t)
    \/ \E c \in Calls, k \in Keys : deleteData(c, k)
    \/ \E c \in Calls, k \in Keys, t \in TTLs : getDataWithFallback(c, k, t)
    \/ \E c \in Calls : getDataThen(c)
    \/ \E c \in Calls : getDataCatch(c)
    \/ \E c \in Calls : getDataCallback(c)
    \/ \E c \in Calls : setDataThen(c)
    \/ \E c \in Calls : setDataCatch(c)
    \/ \E c \in Calls : setDataCallback(c)
    \/ \E c \in Calls : setTTLThen(c)
    \/ \E c \in Calls : setTTLOpenRejected(c)
    \/ \E c \in Calls : setTTLCallback(c)
    \/ \E c \in Calls : setExpireCallback(c)
    \/ \E c \in Calls : deleteDataThen(c)
    \/ \E c \in Calls : deleteDataOpenRejected(c)
    \/ \E c \in Calls : deleteDataCallback(c)
    \/ \E c \in Calls, r \in DataValues : fallbackResolves(c, r)
    \/ \E c \in Calls : fallbackRejects(c, FallbackErr)
    \/ \E c \in Calls : StoreSelect(c)
    \/ \E c \in Calls : StoreFail(c)
    \/ \E c \in Calls : StoreGet(c)
    \/ \E c \in Calls : StoreSetex(c)
    \/ \E c \in Calls : StoreExpire(c)
    \/ \E c \in Calls : StoreDel(c)
    \/ Tick

Spec == Init /\ [][Next]_vars

TypeOK ==
    /\ \A c \in Calls : calls[c].promise.state \in {"pending", "resolved", "rejected"}
    /\ \A c \in Calls : Len(conns[c]) <= 2

(* ------------------------------ properties ------------------------------ *)

GDWF == "getDataWithFallback"

Resolved(c) == calls[c].promise.state = "resolved"

Rejected(c) == calls[c].promise.state = "rejected"

Value(c) == calls[c].promise.value

\* the GET of call g was answered by the store without error, and its
\* callback has run
Answered(g) == calls[g].seen.read /\ calls[g].pc # "cmd"

\* call g was started after the promise of call w had resolved, the store
\* applied no SETEX, EXPIRE or DEL to the key between the one of w and the GET
\* of g, and the GET came less than the ttl of w after w's write
ReadsWriteOf(g, w) ==
    /\ w \in calls[g].after
    /\ Answered(g)
    /\ calls[g].seen.lastMod = w
    /\ calls[w].applied
    /\ calls[g].seen.age < calls[w].ttl

\* C1: a getData started after setData(k, v, ttl) resolved, whose GET the
\* store answers before the entry expires and with no other write or delete
\* on k in between, resolves with a value equal to v, for JSON-representable v
C1_SetThenGet ==
    \A s \in Calls, g \in Calls :
        (/\ calls[s].op = "setData"
         /\ calls[g].op = "getData"
         /\ JSONRepresentable(calls[s].data)
         /\ ReadsWriteOf(g, s))
        => Resolved(g) /\ Value(g) = calls[s].data

C1_Witness ==
    \E s \in Calls, g \in Calls :
        /\ calls[s].op = "setData"
        /\ calls[g].op = "getData"
        /\ calls[s].data = JSObject(<<"a">>, JSNumber(12))
        /\ ReadsWriteOf(g, s)
        /\ Resolved(g)
        /\ Value(g) = JSObject(<<"a">>, JSNumber(12))

\* the write of getDataWithFallback (its setData) succeeded
WriteOk(c) == calls[c].pc = "done" /\ calls[c].openErr = JSNull /\ calls[c].cmdErr = JSNull

WriteFailed(c) == calls[c].pc = "done" /\ (calls[c].openErr # JSNull \/ calls[c].cmdErr # JSNull)

FallbackResolved(c) == calls[c].op = GDWF /\ calls[c].fbState = "resolved"

\* C2 as stated: on a miss with fallback resolving with r, fallback is
\* invoked once, the call resolves with r and a following getData (before
\* expiry, no other writer) resolves with r
C2_Original ==
    \A c \in Calls :
        FallbackResolved(c) =>
            /\ calls[c].fbCount = 1
            /\ calls[c].pc = "done" => Resolved(c) /\ Value(c) = calls[c].fbResult
            /\ \A g \in Calls :
                  calls[g].op = "getData" /\ ReadsWriteOf(g, c)
                  => Resolved(g) /\ Value(g) = calls[c].fbResult

\* C2 amended: on a miss with fallback resolving with r, fallback is invoked
\* exactly once; if the setData of r succeeds the call resolves with r; and a
\* following getData (before expiry, no other writer) resolves with r when r
\* is JSON-representable
C2_MissFills ==
    \A c \in Calls :
        FallbackResolved(c) =>
            /\ calls[c].fbCount = 1
            /\ WriteOk(c) => Resolved(c) /\ Value(c) = calls[c].fbResult
            /\ \A g \in Calls :
                  (/\ calls[g].op = "getData"
                   /\ ReadsWriteOf(g, c)
                   /\ JSONRepresentable(calls[c].fbResult))
                  => Resolved(g) /\ Value(g) = calls[c].fbResult

C2_Witness ==
    \E c \in Calls, g \in Calls :
        /\ FallbackResolved(c)
        /\ calls[c].fbResult = JSObject(<<"a">>, JSNumber(12))
        /\ calls[c].fbCount = 1
        /\ Resolved(c)
        /\ calls[g].op = "getData"
        /\ ReadsWriteOf(g, c)
        /\ Value(g) = JSObject(<<"a">>, JSNumber(12))

\* the getData of getDataWithFallback resolved with a non-null value
ObservedHit(c) ==
    /\ calls[c].op = GDWF
    /\ Answered(c)
    /\ ~LooseNull(calls[c].getResult)

\* C3: when getDataWithFallback observes a hit, fallback is never invoked, no
\* SETEX is sent (the call sends SELECT and GET on one connection and nothing
\* else) and the call resolves with the cached value, the one whose JSON text
\* the store holds
C3_HitNoFallback ==
    \A c \in Calls :
        ObservedHit(c) =>
            /\ calls[c].fbCount = 0
            /\ calls[c].fbState = "none"
            /\ calls[c].sent = <<"SELECT", "GET">>
            /\ Len(conns[c]) = 1
            /\ Resolved(c)
            /\ Value(c) = calls[c].getResult
            /\ JSONStringify(Value(c)) = calls[c].seen.val
            /\ calls[c].pc = "done"

C3_Witness ==
    \E c \in Calls :
        /\ ObservedHit(c)
        /\ Resolved(c)
        /\ Value(c) = JSObject(<<"a">>, JSNumber(12))

\* setTTL(k, 0) of call t found the key, its promise resolved before getData
\* g was started, and between the GET of t and the GET of g the store applied
\* nothing to the key but, possibly, the EXPIRE of t
GetAfterSetTTL0(t, g) ==
    /\ calls[t].op = "setTTL"
    /\ calls[t].ttl = 0
    /\ calls[t].seen.hit
    /\ t \in calls[g].after
    /\ calls[g].op = "getData"
    /\ calls[g].hKey = calls[t].hKey
    /\ Answered(g)
    /\ calls[g].seen.lastMod \in {t, calls[t].seen.lastMod}

\* C4 as stated: a getData issued after setTTL(k, 0) on an existing key has
\* resolved resolves with null, however the store interleaves the EXPIRE of
\* setTTL and the GET of getData
C4_Claim ==
    \A t \in Calls, g \in Calls :
        GetAfterSetTTL0(t, g) => Resolved(g) /\ Value(g) = JSNull

\* the case of C4: the EXPIRE was applied before the GET
C4_Witness ==
    \E t \in Calls, g \in Calls :
        /\ GetAfterSetTTL0(t, g)
        /\ calls[g].seen.lastMod = t
        /\ Value(g) = JSNull

\* C5: a getData whose GET the store answers more than ttl seconds after it
\* applied the SETEX of setData(k, v, ttl), with no further SETEX, EXPIRE or
\* DEL on k in between, resolves with null
C5_Expires ==
    \A s \in Calls, g \in Calls :
        (/\ calls[s].op = "setData"
         /\ calls[s].applied
         /\ calls[g].op = "getData"
         /\ Answered(g)
         /\ calls[g].seen.lastMod = s
         /\ calls[g].seen.age > calls[s].ttl)
        => Resolved(g) /\ Value(g) = JSNull

C5_Witness ==
    \E s \in Calls, g \in Calls :
        /\ calls[s].op = "setData"
        /\ calls[s].applied
        /\ calls[s].ttl = MaxTTL
        /\ calls[g].op = "getData"
        /\ Answered(g)
        /\ calls[g].seen.lastMod = s
        /\ calls[g].seen.age > calls[s].ttl
        /\ Value(g) = JSNull

\* C6: deleteData resolves with no payload, whether or not the key exists; it
\* rejects only with the error of the store or the connection; and a getData
\* started after it resolved, with no write in between, resolves with null
C6_Delete ==
    \A d \in Calls :
        calls[d].op = "deleteData" =>
            /\ Resolved(d) => Value(d) = JSUndefined
            /\ Rejected(d) => calls[d].cmdErr # JSNull /\ Value(d) = calls[d].cmdErr
            /\ (calls[d].pc = "done" /\ calls[d].cmdErr = JSNull /\ calls[d].openErr = JSNull)
                  => Resolved(d)
            /\ \A g \in Calls :
                  (/\ calls[g].op = "getData"
                   /\ d \in calls[g].after
                   /\ Answered(g)
                   /\ calls[g].seen.lastMod = d)
                  => Resolved(g) /\ Value(g) = JSNull

\* deleteData of an existing key resolved, and the getData after it saw null
C6_Witness ==
    \E d \in Calls, g \in Calls :
        /\ calls[d].op = "deleteData"
        /\ calls[d].existed
        /\ Resolved(d)
        /\ Value(d) = JSUndefined
        /\ calls[g].op = "getData"
        /\ d \in calls[g].after
        /\ Answered(g)
        /\ calls[g].seen.lastMod = d
        /\ Value(g) = JSNull

\* the GET of setTTL found no entry
SetTTLMiss(t) ==
    /\ calls[t].op = "setTTL"
    /\ calls[t].seen.read
    /\ ~calls[t].seen.hit

\* C7: setTTL on a key that does not exist rejects with undefined, sends no
\* EXPIRE (it sends SELECT and GET only) and leaves the store unchanged
C7_SetTTLMissing ==
    \A t \in Calls :
        SetTTLMiss(t) =>
            /\ calls[t].sent = <<"SELECT", "GET">>
            /\ lastMod[calls[t].hKey] # t
            /\ ~store[calls[t].hKey].present \/ store[calls[t].hKey].writer # t
            /\ calls[t].pc # "cmd" =>
                  /\ Rejected(t)
                  /\ Value(t) = JSUndefined
                  /\ calls[t].pc = "done"

C7_Witness ==
    \E t \in Calls :
        /\ SetTTLMiss(t)
        /\ Rejected(t)
        /\ Value(t) = JSUndefined
        /\ calls[t].ttl = MaxTTL

\* the connections a call opened that are not closed
OpenConns(c) == {i \in 1..Len(conns[c]) : conns[c][i].state = "open"}

\* C8 as stated: once an operation has completed, every connection it opened
\* is closed
C8_Claim ==
    \A c \in Calls : calls[c].pc = "done" => OpenConns(c) = {}

\* C9 as stated: when opening the connection fails, the promise of the
\* operation is rejected with that error
C9_Claim ==
    \A c \in Calls :
        (calls[c].pc = "done" /\ calls[c].openErr # JSNull)
        => Rejected(c) /\ Value(c) = calls[c].openErr

\* C10 as stated: when fallback resolved with r and the setData of r fails,
\* the call still resolves with r
C10_Original ==
    \A c \in Calls :
        (FallbackResolved(c) /\ WriteFailed(c))
        => Resolved(c) /\ Value(c) = calls[c].fbResult

\* C10 amended: when fallback resolved with r, the call resolves with r if
\* the setData of r succeeds, and rejects with the error of the setData if it
\* fails: a cache-write failure is not masked
C10_WriteFailureRejects ==
    \A c \in Calls :
        FallbackResolved(c) =>
            /\ WriteOk(c) => Resolved(c) /\ Value(c) = calls[c].fbResult
            /\ WriteFailed(c) =>
                  /\ Rejected(c)
                  /\ Value(c) \in {calls[c].openErr, calls[c].cmdErr} \ {JSNull}

C10_Witness ==
    \E c \in Calls :
        /\ FallbackResolved(c)
        /\ WriteFailed(c)
        /\ calls[c].cmdErr = StoreErr
        /\ Rejected(c)
        /\ Value(c) = StoreErr

\* the getData of getDataWithFallback call c has rejected
GetRejected(c) ==
    /\ calls[c].op = GDWF
    /\ calls[c].inner = "getData"
    /\ (calls[c].openErr # JSNull \/ calls[c].cmdErr # JSNull)

\* C11: when the getData of getDataWithFallback rejects (connection or store
\* error), the call rejects with that same error, fallback is never invoked
\* and no write is sent to the store: the call never gets further than the
\* SELECT and the GET of the one client getData opened
C11_GetErrorPropagates ==
    \A c \in Calls :
        GetRejected(c) =>
            /\ Rejected(c)
            /\ Value(c) = (IF calls[c].openErr # JSNull
                           THEN calls[c].openErr ELSE calls[c].cmdErr)
            /\ calls[c].fbCount = 0
            /\ calls[c].fbState = "none"
            /\ calls[c].sent \in {<<"SELECT">>, <<"SELECT", "GET">>}
            /\ Len(conns[c]) = 1
            /\ ~calls[c].applied

C11_Witness ==
    \E c \in Calls :
        /\ GetRejected(c)
        /\ calls[c].cmdErr = StoreErr
        /\ calls[c].sent = <<"SELECT", "GET">>
        /\ Rejected(c)
        /\ Value(c) = StoreErr
        /\ calls[c].fbCount = 0

\* the getData of getDataWithFallback call c found no entry, and its
\* fallback rejected
MissFallbackRejected(c) ==
    /\ calls[c].op = GDWF
    /\ Answered(c)
    /\ ~calls[c].seen.hit
    /\ calls[c].fbState = "rejected"

\* getData call g was started after call c had rejected, reads the key of c,
\* and the store applied no SETEX, EXPIRE or DEL to that key between the GET
\* of c and the GET of g
ReadsAfterRejected(g, c) ==
    /\ calls[g].op = "getData"
    /\ c \in calls[g].afterRej
    /\ calls[g].hKey = calls[c].hKey
    /\ Answered(g)
    /\ calls[g].seen.lastMod = calls[c].seen.lastMod

\* C12: when the read of getDataWithFallback is a miss and fallback rejects
\* with e, the call rejects with e and performs no setData (it sends SELECT
\* and GET only, on one client, and the store applies no write of it); a
\* getData of the key that follows, with no other write in between, finds no
\* entry and resolves with null
C12_FallbackErrorPropagates ==
    \A c \in Calls :
        MissFallbackRejected(c) =>
            /\ Rejected(c)
            /\ Value(c) = calls[c].fbResult
            /\ calls[c].fbCount = 1
            /\ calls[c].sent = <<"SELECT", "GET">>
            /\ Len(conns[c]) = 1
            /\ ~calls[c].applied
            /\ lastMod[calls[c].hKey] # c
            /\ \A g \in Calls :
                  ReadsAfterRejected(g, c) =>
                      /\ ~calls[g].seen.hit
                      /\ Resolved(g)
                      /\ Value(g) = JSNull

C12_Witness ==
    \E c \in Calls, g \in Calls :
        /\ MissFallbackRejected(c)
        /\ Value(c) = FallbackErr
        /\ ReadsAfterRejected(g, c)
        /\ Resolved(g)
        /\ Value(g) = JSNull

\* the error the connection or the command of call c returned, if any
ErrorOf(c) ==
    IF calls[c].openErr # JSNull THEN calls[c].openErr ELSE calls[c].cmdErr

\* C13: getData tells a miss from a failure by channel: when the store
\* answers the GET without error and holds no entry, the promise resolves
\* with null; the promise is rejected only when the connection or the GET
\* returned an error, and then with that error as the reason
C13_MissIsNotFailure ==
    \A g \in Calls :
        calls[g].op = "getData" =>
            /\ (Answered(g) /\ ~calls[g].seen.hit) => Resolved(g) /\ Value(g) = JSNull
            /\ Rejected(g) => ErrorOf(g) # JSNull /\ Value(g) = ErrorOf(g)
            /\ (calls[g].pc = "done" /\ ErrorOf(g) # JSNull) => Rejected(g)

C13_Witness ==
    \E g \in Calls, h \in Calls :
        /\ calls[g].op = "getData"
        /\ Answered(g)
        /\ ~calls[g].seen.hit
        /\ Resolved(g)
        /\ Value(g) = JSNull
        /\ calls[h].op = "getData"
        /\ calls[h].cmdErr = StoreErr
        /\ Rejected(h)
        /\ Value(h) = StoreErr

\* the store answered the GET of call g with a string that is not JSON
ReadMalformed(g) ==
    /\ Answered(g)
    /\ calls[g].seen.hit
    /\ JSONParseText(calls[g].seen.val) = SyntaxError

ObservedMiss(c) ==
    /\ calls[c].op = GDWF
    /\ Answered(c)
    /\ ~calls[c].seen.hit

\* the setData of call c got its connection: its SETEX has been sent
WriteSent(c) ==
    /\ calls[c].fbState = "resolved"
    /\ calls[c].openErr = JSNull
    /\ calls[c].pc # "select"

\* C15: there is no single-flight.  When two getDataWithFallback calls on
\* the same key both observe a miss, each calls its own fallback once and
\* each one whose fallback resolved sends its own SETEX once its setData is
\* connected; while the store holds an entry last modified by one of the
\* two, the entry is the one of the write it applied last
C15_NoSingleFlight ==
    \A c \in Calls, d \in Calls :
        (/\ c # d
         /\ ObservedMiss(c)
         /\ ObservedMiss(d)
         /\ calls[c].key = calls[d].key)
        => /\ calls[c].fbCount = 1
           /\ calls[d].fbCount = 1
           /\ WriteSent(c) => calls[c].sent = <<"SELECT", "GET", "SELECT", "SETEX">>
           /\ LET k == calls[c].hKey
              IN (store[k].present /\ lastMod[k] \in {c, d}) =>
                    /\ calls[lastMod[k]].applied
                    /\ store[k].writer = lastMod[k]
                    /\ store[k].val = JSONStringify(calls[lastMod[k]].data)

C15_Witness ==
    \E c \in Calls, d \in Calls :
        /\ ObservedMiss(c)
        /\ ObservedMiss(d)
        /\ c \notin calls[d].after
        /\ d \notin calls[c].after
        /\ calls[c].fbCount = 1
        /\ calls[d].fbCount = 1
        /\ calls[c].applied
        /\ calls[d].applied
        /\ calls[c].data = JSString(<<"a">>)
        /\ calls[d].data = JSObject(<<"a">>, JSNumber(12))
        /\ lastMod[calls[c].hKey] = d
        /\ store[calls[c].hKey].present
        /\ store[calls[c].hKey].val = JSONStringify(calls[d].data)

(* ------------------------ the prefix of the keys ------------------------ *)

\* a program that calls init, setCachePrefix and the four operations on keys
\* at any time, and the store
NextPrefix ==
    \/ \E cfg \in ConfigArgs : CacherInit(cfg)
    \/ \E name \in Prefixes : setCachePrefix(name)
    \/ \E c \in Calls, k \in Keys : getData(c, k)
    \/ \E c \in Calls, k \in Keys, d \in DataValues, t \in TTLs : setData(c, k, d, t)
    \/ \E c \in Calls, k \in Keys, t \in TTLs : setTTL(c, k, t)
    \/ \E c \in Calls, k \in Keys : deleteData(c, k)
    \/ \E c \in Calls : getDataThen(c)
    \/ \E c \in Calls : getDataCatch(c)
    \/ \E c \in Calls : getDataCallback(c)
    \/ \E c \in Calls : setDataThen(c)
    \/ \E c \in Calls : setDataCatch(c)
    \/ \E c \in Calls : setDataCallback(c)
    \/ \E c \in Calls : setTTLThen(c)
    \/ \E c \in Calls : setTTLOpenRejected(c)
    \/ \E c \in Calls : setTTLCallback(c)
    \/ \E c \in Calls : setExpireCallback(c)
    \/ \E c \in Calls : deleteDataThen(c)
    \/ \E c \in Calls : deleteDataOpenRejected(c)
    \/ \E c \in Calls : deleteDataCallback(c)
    \/ \E c \in Calls : StoreSelect(c)
    \/ \E c \in Calls : StoreFail(c)
    \/ \E c \in Calls : StoreGet(c)
    \/ \E c \in Calls : StoreSetex(c)
    \/ \E c \in Calls : StoreExpire(c)
    \/ \E c \in Calls : StoreDel(c)
    \/ Tick

SpecPrefix == Init /\ [][NextPrefix]_vars

\* "<prefix>:<k>", written out for the prefixes and keys of the model
ExpectedKey(prefix, k) ==
    CASE prefix = "cacher" /\ k = "test1" -> "cacher:test1"
      [] prefix = "myAppName" /\ k = "test1" -> "myAppName:test1"
      [] OTHER -> "none"

\* a command other than SELECT of call c is with the store
KeyCommand(c) ==
    /\ Cur(c) >= 1
    /\ conns[c][Cur(c)].req # <<>>
    /\ Req(c).cmd # "SELECT"

\* every GET, SETEX, EXPIRE and DEL addresses "<prefix>:<k>", for the prefix
\* in effect when the operation was called
KeysOnTheWire ==
    \A c \in Calls :
        KeyCommand(c) =>
            /\ calls[c].prefix \in Prefixes
            /\ Req(c).key = ExpectedKey(calls[c].prefix, calls[c].key)

\* an entry is read back only under the prefix it was written under (the
\* entries of an earlier run were written under "cacher")
ReadBackSamePrefix ==
    \A g \in Calls :
        (Answered(g) /\ calls[g].seen.hit) =>
            calls[g].prefix = (IF calls[g].seen.writer = 0
                               THEN "cacher"
                               ELSE calls[calls[g].seen.writer].prefix)

\* the prefix in effect: "cacher" once init has run, the argument of
\* setCachePrefix from then on, for the operations called afterwards (the
\* operations in progress keep their label)
PrefixInEffect ==
    /\ (config = JSUndefined /\ config' # JSUndefined) => cachePrefix' = "cacher"
    /\ cachePrefix' # cachePrefix =>
          /\ cachePrefix' \in Prefixes
          /\ calls' = calls
          /\ conns' = conns
    /\ \A c \in Calls :
          (calls[c].pc = "idle" /\ calls'[c].pc # "idle") =>
              /\ calls'[c].prefix = cachePrefix
              /\ calls'[c].hKey = ExpectedKey(cachePrefix, calls'[c].key)

\* C16: every command getData, setData, setTTL and deleteData send for key k
\* addresses the storage key "<prefix>:<k>", where the prefix is "cacher" by
\* default and the argument of setCachePrefix for the operations called after
\* it; an entry written under one prefix is read back only under that prefix
C16_KeyFormat ==
    /\ [](KeysOnTheWire /\ ReadBackSamePrefix)
    /\ [][PrefixInEffect]_vars

C16_Witness ==
    \E w \in Calls, g \in Calls :
        /\ calls[w].op = "setData"
        /\ calls[w].prefix = "myAppName"
        /\ calls[w].applied
        /\ calls[g].op = "getData"
        /\ calls[g].prefix = "myAppName"
        /\ Answered(g)
        /\ calls[g].seen.hit
        /\ calls[g].seen.writer = w
        /\ calls[g].seen.val = JSONStringify(calls[w].data)
        /\ store["cacher:test1"].present
        /\ store["cacher:test1"].writer = 0

(* --------------------------- the older Cacher --------------------------- *)
\* The Cacher of src/unnamed/part_001: keys are hashed, init sets no prefix,
\* getData parses with JSON.parse, and getDataWithFetchCallback stands where
\* getDataWithFallback stands now.

GDWFC == "getDataWithFetchCallback"

\* the entries of an earlier run are under the labels of the older Cacher
InitOld ==
    /\ config = JSUndefined
    /\ cachePrefix = "undefined"
    /\ calls = [c \in Calls |-> IdleCall]
    /\ conns = [c \in Calls |-> <<>>]
    /\ store \in [StorageKeys -> InitialEntries]
    /\ \A k \in StorageKeys : store[k].present => k \in {OldHKeyLabel(key) : key \in Keys}
    /\ lastMod = [k \in StorageKeys |-> 0]

\* Cacher.init(config) of the older Cacher: super.init(config) only
OldCacherInit(cfg) ==
    /\ config' = [type |-> "config", v |-> ObjectAssign([db |-> DefaultDb], cfg)]
    /\ UNCHANGED <<cachePrefix, calls, conns, store, lastMod>>

\* getDataWithFetchCallback, the handlers chained on this.getData(key):
\* .then resolves with cacheData; .catch rejects with err if err !== null,
\* and calls fetchCallback() otherwise
gdwfcAfterGet(call, state, value) ==
    IF state = "resolved"
    THEN [call EXCEPT !.getResult = value,
                      !.promise = Settle(@, "resolved", value), !.pc = "done"]
    ELSE IF value # JSNull
    THEN [call EXCEPT !.promise = Settle(@, "rejected", value), !.pc = "done"]
    ELSE [call EXCEPT !.fbCount = @ + 1, !.pc = "fallback"]

\* resolve(value) or reject(value) of the promise of the older getData or
\* setData
OldFinish(call, state, value) ==
    IF call.op = GDWFC /\ call.inner = "getData"
    THEN gdwfcAfterGet(call, state, value)
    ELSE [call EXCEPT !.promise = Settle(@, state, value), !.pc = "done"]

\* the start of an operation of the older Cacher
OldStart(c, op, key, data, ttl) ==
    /\ config # JSUndefined
    /\ calls[c].pc = "idle"
    /\ \A d \in 1..(c - 1) : calls[d].pc # "idle"
    /\ calls' = [calls EXCEPT ![c] =
          [@ EXCEPT !.op = op, !.key = key, !.data = data, !.ttl = ttl,
                    !.inner = IF op = GDWFC THEN "getData" ELSE op,
                    !.hKey = OldHKeyLabel(key),
                    !.pc = "select", !.sent = <<"SELECT">>,
                    !.after = {d \in Calls : calls[d].promise.state = "resolved"},
                    !.afterRej = {d \in Calls : calls[d].promise.state = "rejected"}]]
    /\ conns' = [conns EXCEPT ![c] = openDB(@)]
    /\ UNCHANGED <<config, cachePrefix, store, lastMod>>

OldSetData(c, key, data, cacheDurationInSeconds) ==
    OldStart(c, "setData", key, data, cacheDurationInSeconds)

getDataWithFetchCallback(c, key, cacheDurationInSeconds) ==
    OldStart(c, GDWFC, key, JSUndefined, cacheDurationInSeconds)

\* older getData, openDB().then: db.get(hKeyLabel, callback)
OldGetDataThen(c) ==
    /\ Opened(c, "getData")
    /\ calls[c].op = GDWFC
    /\ SendCommand(c, Command("GET", calls[c].hKey, 0, <<>>), "cmd")
    /\ UNCHANGED <<config, cachePrefix, store, lastMod>>

\* older getData, openDB().catch: reject(reason), then closeDB(db) with db
\* still null
OldGetDataCatch(c) ==
    /\ OpenFailed(c, "getData")
    /\ calls[c].op = GDWFC
    /\ calls' = [calls EXCEPT ![c] =
          OldFinish([@ EXCEPT !.openErr = Rep(c).err], "rejected", Rep(c).err)]
    /\ conns' = [conns EXCEPT ![c] = TakeRep(@)]
    /\ UNCHANGED <<config, cachePrefix, store, lastMod>>

\* older getData, the callback of db.get: reject(error) or
\* resolve(JSON.parse(result)), then closeDB(db).  JSON.parse(null) is null.
\* When JSON.parse throws, the callback ends there: the promise stays pending
\* and the client open
OldGetDataCallback(c) ==
    /\ Replied(c, "getData", "cmd")
    /\ calls[c].op = GDWFC
    /\ IF Rep(c).err # JSNull
       THEN /\ calls' = [calls EXCEPT ![c] =
                  OldFinish([@ EXCEPT !.cmdErr = Rep(c).err], "rejected", Rep(c).err)]
            /\ conns' = [conns EXCEPT ![c] = closeDB(TakeRep(@))]
       ELSE IF JSONParse(Rep(c).result) = SyntaxError
       THEN /\ calls' = [calls EXCEPT ![c].pc = "done"]
            /\ conns' = [conns EXCEPT ![c] = TakeRep(@)]
       ELSE /\ calls' = [calls EXCEPT ![c] =
                  OldFinish(@, "resolved", JSONParse(Rep(c).result))]
            /\ conns' = [conns EXCEPT ![c] = closeDB(TakeRep(@))]
    /\ UNCHANGED <<config, cachePrefix, store, lastMod>>

\* older setData, openDB().then: db.setex(hKeyLabel, seconds,
\* JSON.stringify(data), callback)
OldSetDataThen(c) ==
    /\ Opened(c, "setData")
    /\ calls[c].op = "setData"
    /\ SendCommand(c, Command("SETEX", calls[c].hKey, calls[c].ttl,
                              JSONStringify(calls[c].data)), "cmd")
    /\ UNCHANGED <<config, cachePrefix, store, lastMod>>

\* older setData, the callback of db.setex: reject(error) or resolve(), then
\* closeDB(db)
OldSetDataCallback(c) ==
    /\ Replied(c, "setData", "cmd")
    /\ calls[c].op = "setData"
    /\ calls' = [calls EXCEPT ![c] =
          IF Rep(c).err # JSNull
          THEN OldFinish([@ EXCEPT !.cmdErr = Rep(c).err], "rejected", Rep(c).err)
          ELSE OldFinish(@, "resolved", JSUndefined)]
    /\ conns' = [conns EXCEPT ![c] = closeDB(TakeRep(@))]
    /\ UNCHANGED <<config, cachePrefix, store, lastMod>>

\* older setData, openDB().catch: reject(reason), then closeDB(db) with db
\* still null
OldSetDataCatch(c) ==
    /\ OpenFailed(c, "setData")
    /\ calls[c].op = "setData"
    /\ calls' = [calls EXCEPT ![c] =
          OldFinish([@ EXCEPT !.openErr = Rep(c).err], "rejected", Rep(c).err)]
    /\ conns' = [conns EXCEPT ![c] = TakeRep(@)]
    /\ UNCHANGED <<config, cachePrefix, store, lastMod>>

\* a program that calls init, setData and getDataWithFetchCallback of the
\* older Cacher, and the store.  No step continues from pc = "fallback": the
\* handlers of fetchCallback() never run, as OldNeverFetches shows
NextOld ==
    \/ \E cfg \in ConfigArgs : OldCacherInit(cfg)
    \/ \E c \in Calls, k \in Keys, d \in DataValues, t \in TTLs : OldSetData(c, k, d, t)
    \/ \E c \in Calls, k \in Keys, t \in TTLs : getDataWithFetchCallback(c, k, t)
    \/ \E c \in Calls : OldGetDataThen(c)
    \/ \E c \in Calls : OldGetDataCatch(c)
    \/ \E c \in Calls : OldGetDataCallback(c)
    \/ \E c \in Calls : OldSetDataThen(c)
    \/ \E c \in Calls : OldSetDataCatch(c)
    \/ \E c \in Calls : OldSetDataCallback(c)
    \/ \E c \in Calls : StoreSelect(c)
    \/ \E c \in Calls : StoreFail(c)
    \/ \E c \in Calls : StoreGet(c)
    \/ \E c \in Calls : StoreSetex(c)
    \/ Tick

SpecOld == InitOld /\ [][NextOld]_vars

\* fetchCallback is never called: getData rejects with errors only, and
\* resolves with null when the key is not cached
OldNeverFetches ==
    \A c \in Calls : calls[c].fbCount = 0 /\ calls[c].pc # "fallback"

\* C17: getDataWithFetchCallback of the older Cacher resolves with the cached
\* data when the key is cached; when it is not, it calls fetchCallback (once),
\* and resolves only with the value fetchCallback resolved with, once the
\* store has it
C17_Claim ==
    \A c \in Calls :
        (calls[c].op = GDWFC /\ Answered(c)) =>
            /\ (calls[c].seen.hit /\ Resolved(c)) =>
                  Value(c) = JSONParseText(calls[c].seen.val)
            /\ ~calls[c].seen.hit =>
                  /\ calls[c].fbCount = 1
                  /\ Resolved(c) =>
                        /\ calls[c].fbState = "resolved"
                        /\ Value(c) = calls[c].fbResult
                        /\ calls[c].applied

\* the key is not cached, and the call has resolved with null without
\* calling fetchCallback
C17_Witness ==
    \E c \in Calls :
        /\ calls[c].op = GDWFC
        /\ Answered(c)
        /\ ~calls[c].seen.hit
        /\ ~store[calls[c].hKey].present
        /\ Resolved(c)
        /\ Value(c) = JSNull
        /\ calls[c].fbCount = 0

\* the GET of setTTL call c found an entry
SetTTLHit(c) ==
    /\ calls[c].op = "setTTL"
    /\ Answered(c)
    /\ calls[c].seen.hit

\* C18: setTTL on an existing key resolves with the deserialized stored value
\* and issues exactly one EXPIRE, for ttl and the same key, on the client of
\* its GET; the promise is settled once, by the outcome of the GET: it is
\* rejected only when the GET returned an error or found no entry, and the
\* result or error of the EXPIRE changes neither its state nor its value
C18_SetTTLOutcome ==
    \A c \in Calls :
        calls[c].op = "setTTL" =>
            /\ SetTTLHit(c) =>
                  /\ Resolved(c)
                  /\ Value(c) = safeJSONParse(JSString(calls[c].seen.val))
                  /\ calls[c].sent = <<"SELECT", "GET", "EXPIRE">>
                  /\ Len(conns[c]) = 1
                  /\ HasReq(c, "EXPIRE") =>
                        /\ Req(c).num = calls[c].ttl
                        /\ Req(c).key = calls[c].hKey
            /\ Rejected(c) =>
                  /\ calls[c].sent = <<"SELECT", "GET">>
                  /\ IF calls[c].seen.read
                     THEN ~calls[c].seen.hit /\ Value(c) = JSUndefined
                     ELSE calls[c].cmdErr # JSNull /\ Value(c) = calls[c].cmdErr

\* the EXPIRE of a setTTL that resolved with the stored value has failed
C18_Witness ==
    \E c \in Calls :
        /\ SetTTLHit(c)
        /\ calls[c].pc = "done"
        /\ calls[c].cmdErr = StoreErr
        /\ calls[c].sent = <<"SELECT", "GET", "EXPIRE">>
        /\ Resolved(c)
        /\ Value(c) = JSObject(<<"a">>, JSNumber(12))

\* the commands other than SELECT that call c has sent
KeyCommands(c) == {i \in 1..Len(calls[c].sent) : calls[c].sent[i] # "SELECT"}

\* nothing is retried: an operation whose connection or command failed has
\* sent nothing after the failure (getDataWithFallback connects a second time
\* only after its getData succeeded)
NoRetry ==
    \A c \in Calls :
        /\ (calls[c].openErr # JSNull /\ calls[c].op # GDWF) => calls[c].sent = <<"SELECT">>
        /\ (calls[c].openErr # JSNull /\ calls[c].op = GDWF) =>
              calls[c].sent \in {<<"SELECT">>, <<"SELECT", "GET", "SELECT">>}
        /\ calls[c].cmdErr # JSNull =>
              /\ calls[c].pc = "done"
              /\ calls[c].sent[Len(calls[c].sent)] # "SELECT"
              /\ Cardinality({i \in 1..Len(calls[c].sent) :
                                calls[c].sent[i] = calls[c].sent[Len(calls[c].sent)]}) = 1

\* C19 as stated: an operation that is over has opened exactly one
\* connection, has issued a single command on it and has closed it, and
\* nothing is retried
C19_Claim ==
    /\ NoRetry
    /\ \A c \in Calls :
          calls[c].pc = "done" =>
              /\ Len(conns[c]) = 1
              /\ Cardinality(KeyCommands(c)) <= 1
              /\ conns[c][1].state = "closed"

\* a setTTL that went well has sent two commands, GET and EXPIRE
C19_Witness ==
    \E c \in Calls :
        /\ calls[c].op = "setTTL"
        /\ calls[c].pc = "done"
        /\ calls[c].openErr = JSNull
        /\ calls[c].cmdErr = JSNull
        /\ Resolved(c)
        /\ calls[c].sent = <<"SELECT", "GET", "EXPIRE">>
        /\ conns[c][1].state = "closed"

\* getDataWithFallback call f observed a miss, its fallback resolved and it
\* resolved; getDataWithFallback call g was started after that, and the store
\* answered its GET before the entry of f expired, with no other write or
\* delete on the key in between
SecondAfterFill(g, f) ==
    /\ calls[f].op = GDWF
    /\ calls[g].op = GDWF
    /\ ObservedMiss(f)
    /\ calls[f].fbState = "resolved"
    /\ ReadsWriteOf(g, f)

\* C20 as stated: whatever r the fallback of the first call resolved with,
\* null included, the second call resolves with r and does not call its
\* fallback
C20_Original ==
    \A f \in Calls, g \in Calls :
        SecondAfterFill(g, f) =>
            /\ calls[g].fbCount = 0
            /\ Resolved(g)
            /\ Value(g) = calls[f].fbResult

\* C20 amended: when r is JSON-representable and not null, the second call
\* resolves with r and does not call its fallback
C20_FillEffective ==
    \A f \in Calls, g \in Calls :
        (/\ SecondAfterFill(g, f)
         /\ JSONRepresentable(calls[f].fbResult)
         /\ calls[f].fbResult # JSNull)
        => /\ calls[g].fbCount = 0
           /\ Resolved(g)
           /\ Value(g) = calls[f].fbResult

C20_Witness ==
    \E f \in Calls, g \in Calls :
        /\ SecondAfterFill(g, f)
        /\ Value(f) = JSObject(<<"a">>, JSNumber(12))
        /\ calls[g].fbCount = 0
        /\ Resolved(g)
        /\ Value(g) = JSObject(<<"a">>, JSNumber(12))

(* ---------------------- setTTL and concurrent calls ---------------------- *)

\* this step is the store applying the EXPIRE of setTTL call c
ExpireStep(c) ==
    /\ calls[c].op = "setTTL"
    /\ HasReq(c, "EXPIRE")
    /\ conns'[c][Cur(c)].rep # <<>>
    /\ conns'[c][Cur(c)].rep[1].err = JSNull

\* what an EXPIRE of call c does to the entry e it finds
Expired(e, c) == IF calls[c].ttl = 0 THEN Absent ELSE [e EXCEPT !.ttl = calls[c].ttl]

\* C21 as stated: the EXPIRE of a setTTL that resolved with v is applied to
\* an entry that still exists and still holds the text v was parsed from,
\* whatever the store did between the GET and the EXPIRE
C21_OriginalStep ==
    \A c \in Calls :
        (ExpireStep(c) /\ Resolved(c)) =>
            /\ store[calls[c].hKey].present
            /\ store[calls[c].hKey].val = calls[c].seen.val

C21_Original == [][C21_OriginalStep]_vars

\* the EXPIRE is applied to whatever the key holds when the store handles
\* it: an entry that is there gets the ttl (and is removed for ttl 0) with
\* its value untouched, a key without entry stays without; the entry is the
\* one the GET read when the store applied no SETEX, EXPIRE or DEL to the key
\* since the GET
C21_ExpireStep ==
    \A c \in Calls :
        ExpireStep(c) =>
            LET k == calls[c].hKey
            IN /\ Resolved(c)
               /\ Value(c) = safeJSONParse(JSString(calls[c].seen.val))
               /\ \A j \in StorageKeys \ {k} : store'[j] = store[j]
               /\ store[k].present => store'[k] = Expired(store[k], c)
               /\ ~store[k].present => store'[k] = store[k]
               /\ (store[k].present /\ lastMod[k] = calls[c].seen.lastMod) =>
                     /\ store[k].val = calls[c].seen.val
                     /\ store[k].writer = calls[c].seen.writer

\* C21 amended: when setTTL(k, ttl) resolved with v, its EXPIRE is applied
\* to the entry k holds at that moment; that entry still holds v when no
\* write, expiration update or delete of k reached the store between the GET
\* and the EXPIRE and the entry has not expired meanwhile
C21_ExpireOnCurrentEntry == [][C21_ExpireStep]_vars

\* the EXPIRE of a setTTL was applied to the entry its GET read, while
\* another call was writing the key
C21_Witness ==
    \E c \in Calls, w \in Calls :
        /\ SetTTLHit(c)
        /\ calls[c].existed
        /\ calls[c].ttl = 1
        /\ lastMod[calls[c].hKey] = c
        /\ store[calls[c].hKey].present
        /\ store[calls[c].hKey].val = calls[c].seen.val
        /\ store[calls[c].hKey].ttl = 1
        /\ Resolved(c)
        /\ calls[w].op = "setData"
        /\ w \notin calls[c].after
        /\ HasReq(w, "SETEX")

(* ----------------------- configuration and prefix ----------------------- *)

\* a program that calls init, with or without a database, setCachePrefix and
\* every operation at any time, and the store
NextConfig ==
    \/ \E cfg \in ConfigArgsDb : CacherInit(cfg)
    \/ \E name \in Prefixes : setCachePrefix(name)
    \/ \E c \in Calls, k \in Keys : getData(c, k)
    \/ \E c \in Calls, k \in Keys, t \in TTLs :
          setData(c, k, JSObject(<<"a">>, JSNumber(12)), t)
    \/ \E c \in Calls, k \in Keys, t \in TTLs : setTTL(c, k, t)
    \/ \E c \in Calls, k \in Keys : deleteData(c, k)
    \/ \E c \in Calls, k \in Keys, t \in TTLs : getDataWithFallback(c, k, t)
    \/ \E c \in Calls : getDataThen(c)
    \/ \E c \in Calls : getDataCatch(c)
    \/ \E c \in Calls : getDataCallback(c)
    \/ \E c \in Calls : setDataThen(c)
    \/ \E c \in Calls : setDataCatch(c)
    \/ \E c \in Calls : setDataCallback(c)
    \/ \E c \in Calls : setTTLThen(c)
    \/ \E c \in Calls : setTTLOpenRejected(c)
    \/ \E c \in Calls : setTTLCallback(c)
    \/ \E c \in Calls : setExpireCallback(c)
    \/ \E c \in Calls : deleteDataThen(c)
    \/ \E c \in Calls : deleteDataOpenRejected(c)
    \/ \E c \in Calls : deleteDataCallback(c)
    \/ \E c \in Calls : fallbackResolves(c, JSObject(<<"a">>, JSNumber(12)))
    \/ \E c \in Calls : fallbackRejects(c, FallbackErr)
    \/ \E c \in Calls : StoreSelect(c)
    \/ \E c \in Calls : StoreFail(c)
    \/ \E c \in Calls : StoreGet(c)
    \/ \E c \in Calls : StoreSetex(c)
    \/ \E c \in Calls : StoreExpire(c)
    \/ \E c \in Calls : StoreDel(c)
    \/ Tick

SpecConfig == Init /\ [][NextConfig]_vars

\* the caller's fields merged over the default db = 1, written out
MergedConfig(cfg) ==
    [url |-> cfg.url, port |-> cfg.port,
     db |-> IF "db" \in DOMAIN cfg THEN cfg.db ELSE 1]

\* a step that changes the config or the prefix is a call of init or of
\* setCachePrefix, and changes nothing else; a call of init that changes the
\* config leaves the merged config and the prefix "cacher"; any other change
\* of the prefix is to the argument of setCachePrefix, or back to "cacher"
ConfigStep ==
    /\ (config' # config \/ cachePrefix' # cachePrefix) =>
          /\ calls' = calls
          /\ conns' = conns
          /\ store' = store
          /\ lastMod' = lastMod
    /\ config' # config =>
          /\ \E cfg \in ConfigArgsDb :
                config' = [type |-> "config", v |-> MergedConfig(cfg)]
          /\ cachePrefix' = "cacher"
    /\ (config' = config /\ cachePrefix' # cachePrefix) => cachePrefix' \in Prefixes
    /\ \A c \in Calls :
          (calls[c].pc = "idle" /\ calls'[c].pc # "idle") =>
              /\ calls'[c].prefix = cachePrefix
              /\ conns'[c][1].req[1].num = config.v.db

\* once init has run, the prefix is "cacher" or the argument of a
\* setCachePrefix, and the config has the caller's address and port and a
\* database
ConfigInEffect ==
    config # JSUndefined =>
        /\ cachePrefix \in Prefixes
        /\ \E cfg \in ConfigArgsDb : config.v = MergedConfig(cfg)

\* C22: in any sequence of init, setCachePrefix and data operations, the
\* prefix in effect is the argument of the most recent setCachePrefix made
\* after the most recent init, "cacher" if there is none: init resets the
\* prefix to "cacher" and sets the config to the caller's fields merged over
\* db = 1, and no data operation changes the prefix or the config
C22_PrefixAndConfig ==
    /\ []ConfigInEffect
    /\ [][ConfigStep]_vars

\* an operation called under setCachePrefix('myAppName') is in progress, init
\* with db 2 has run since, and the next operation selects database 2 and
\* uses the prefix "cacher"
C22_Witness ==
    \E c \in Calls, d \in Calls :
        /\ calls[c].prefix = "myAppName"
        /\ conns[c][1].state = "open"
        /\ calls[d].prefix = "cacher"
        /\ HasReq(d, "SELECT")
        /\ Req(d).num = 2
        /\ config.v.db = 2
        /\ cachePrefix = "cacher"

====
